---- MODULE Spec2Model ----
(***************************************************************************)
(* Model of the daily recommendations pipeline (tp_pipeline_dag.py): the   *)
(* four Airflow tasks FiltrarDatos >> TopProduct >> TopCTR >> DBWriting,   *)
(* the CSV files they hand to each other under PROCESSED_DATA_DIR, and the *)
(* table 'recommendations' they materialise into.                          *)
(*                                                                         *)
(* Data representation                                                     *)
(*   - advertiser_id and product_id are naturals; their order stands for   *)
(*     the order pandas gives the column's values.                         *)
(*   - a log (product_views, ads_views) is a bag of rows: every consumer   *)
(*     of a log in the code is a groupby, which does not read row order.   *)
(*   - a ranked DataFrame (top_product, top_ctr) is a sequence of records, *)
(*     in row order, which is what head() and cumcount() read.             *)
(*   - ctr = clicks / impressions is kept as the reduced fraction          *)
(*     <<numerator, denominator>>: two quotients are equal floats exactly  *)
(*     when the fractions are equal (counts far below 2^26).               *)
(*   - SQL NULL / Python None is Null.                                     *)
(***************************************************************************)
EXTENDS Integers, Sequences, FiniteSets, Bags, TLC

\* ------------------------------------------------------------------ bounds
MaxAdv == 2
MaxProducts == 21
MaxCatalog == 2
MaxRegistry == 1
MaxVariant == 2
MaxMul == 3
MaxMod == 4
MaxDate == 2

\* ------------------------------------------------------- program constants
TopN == 20
retries == 1
Null == -1

Advertisers == 1..MaxAdv
Dates == 1..MaxDate
NullCtr == <<Null, Null>>

\* ------------------------------------------------------------------- state
VARIABLES
    product_views_filtered,  \* PRODUCT_VIEWS_FILTERED_PATH: bag of <<advertiser_id, product_id>>
    ads_views_filtered,      \* ADS_VIEWS_FILTERED_PATH: bag of <<advertiser_id, product_id, type>>
    top_product,             \* TOP_PRODUCT_PATH: sequence of rows
    top_ctr,                 \* TOP_CTR_PATH: sequence of rows
    recommendations,         \* the committed rows of table recommendations: a bag
    pc,                      \* pc[ds]: the task instance the DAG run of date ds is at
    tries,                   \* tries[ds]: failed tries of the current task instance
    inputs,                  \* inputs[ds]: what FiltrarDatos of that run downloaded
    tx,                      \* tx[ds]: the transaction of db_writing of that run
    api                      \* the request the serving layer is handling

vars == <<product_views_filtered, ads_views_filtered, top_product, top_ctr,
          recommendations, pc, tries, inputs, tx, api>>

pipeline == <<product_views_filtered, ads_views_filtered, top_product, top_ctr,
              recommendations, pc, tries, inputs, tx>>

files == <<product_views_filtered, ads_views_filtered, top_product, top_ctr>>

\* ------------------------------------------------------------ raw datasets
\* The three CSV files in the bucket at the time a run downloads them.
ProductViews(n, k, m) ==
    [r \in {<<a, p>> : a \in Advertisers, p \in 1..n} |-> 1 + (((r[1] + r[2]) * k) % m)]

AdsViews(n, k, m) ==
    LET imp(a, p) == (1 + (a + p) * k) % m
        clk(a, p) == (a * p) % (k + 1)
        rows == {<<a, p, "impression">> : a \in Advertisers, p \in 1..n}
                \cup {<<a, p, "click">> : a \in Advertisers, p \in 1..n}
        cnt(r) == IF r[3] = "impression" THEN imp(r[1], r[2]) ELSE clk(r[1], r[2])
    IN  [r \in {x \in rows : cnt(x) > 0} |-> cnt(r)]

Dataset(reg, n, k, m) ==
    [advertisers |-> reg,
     product_views |-> ProductViews(n, k, m),
     ads_views |-> AdsViews(n, k, m)]

\* What a run of the daily pipeline may find in the bucket.
PipelineInputs ==
    {Dataset(1..k, MaxCatalog, 2, 3) : k \in 0..MaxRegistry}

\* What the bucket may hold from day to day while the serving layer reads.
ServeInputs ==
    PipelineInputs
    \cup {Dataset(1..MaxRegistry, MaxCatalog, k, 3) : k \in 1..MaxVariant}

\* inputs[ds] of a date no run has filtered yet.
NoDataset == Dataset({}, MaxCatalog, 2, 3)

\* Large catalogues, for the rankers.
CatalogInputs ==
    {Dataset(Advertisers, n, k, m) : n \in 0..MaxProducts, k \in 0..MaxMul, m \in 1..MaxMod}

\* ------------------------------------------------------------ filtrar_datos
active_ids(ds) == ds.advertisers

isin(log, ids) == [r \in {x \in DOMAIN log : x[1] \in ids} |-> log[r]]

filtrar_datos(raw) ==
    [product_views_filtered |-> isin(raw.product_views, active_ids(raw)),
     ads_views_filtered |-> isin(raw.ads_views, active_ids(raw))]

\* ------------------------------------------------------- DataFrame helpers
Min(S) == CHOOSE x \in S : \A y \in S : x <= y

\* The rows of df at the indices in I, in row order.
SelectIdx(df, I) ==
    LET F[i \in 0..Len(df)] ==
            IF i = 0 THEN <<>>
            ELSE IF i \in I THEN Append(F[i - 1], df[i]) ELSE F[i - 1]
    IN  F[Len(df)]

\* groupby(...) sorts the group keys: (advertiser_id, product_id) ascending.
KeyBefore(x, y) == x[1] < y[1] \/ (x[1] = y[1] /\ x[2] < y[2])

RECURSIVE SortedKeys(_)
SortedKeys(S) ==
    IF S = {} THEN <<>>
    ELSE LET x == CHOOSE k \in S : \A y \in S \ {k} : KeyBefore(k, y)
         IN  <<x>> \o SortedKeys(S \ {x})

RECURSIVE GCD(_, _)
GCD(a, b) == IF b = 0 THEN a ELSE GCD(b, a % b)

\* clicks / impressions, impressions > 0.
Quotient(clicks, impressions) ==
    LET g == GCD(clicks, impressions) IN <<clicks \div g, impressions \div g>>

\* u > v in column col.
Greater(u, v, col) ==
    IF col = "ctr" THEN u[1] * v[2] > v[1] * u[2] ELSE u > v

\* by=["advertiser_id", col], ascending=[True, False]: x sorts strictly before y.
PrecedesTiesReversed(x, y, col) ==
    \/ x.advertiser_id < y.advertiser_id
    \/ /\ x.advertiser_id = y.advertiser_id
       /\ ~Greater(y[col], x[col], col)

Precedes(x, y, col) ==
    \/ x.advertiser_id < y.advertiser_id
    \/ /\ x.advertiser_id = y.advertiser_id
       /\ Greater(x[col], y[col], col)

\* DataFrame.sort_values on two columns: a stable sort (rows that compare equal
\* keep the order they had), so each row goes after every row it does not precede.
RECURSIVE sort_values(_, _)
sort_values(df, col) ==
    IF df = <<>> THEN <<>>
    ELSE LET n == Len(df)
             s == sort_values(SubSeq(df, 1, n - 1), col)
             x == df[n]
             I == {i \in 1..Len(s) : Precedes(x, s[i], col)}
             pos == IF I = {} THEN Len(s) + 1 ELSE Min(I)
         IN  SubSeq(s, 1, pos - 1) \o <<x>> \o SubSeq(s, pos, Len(s))

\* groupby("advertiser_id").cumcount() of row i.
cumcount(df, i) ==
    Cardinality({j \in 1..(i - 1) : df[j].advertiser_id = df[i].advertiser_id})

head_plus_one(df, n) == SelectIdx(df, {i \in 1..Len(df) : cumcount(df, i) <= n})

\* groupby("advertiser_id").head(n)
head(df, n) == SelectIdx(df, {i \in 1..Len(df) : cumcount(df, i) < n})

\* --------------------------------------------------- calcular_top_product
calcular_top_product(pvf) ==
    LET keys == SortedKeys(DOMAIN pvf)
        views == [i \in 1..Len(keys) |->
                    [advertiser_id |-> keys[i][1],
                     product_id |-> keys[i][2],
                     views |-> pvf[keys[i]]]]
        top == head(sort_values(views, "views"), TopN)
    IN  [i \in 1..Len(top) |->
            [advertiser_id |-> top[i].advertiser_id,
             product_id |-> top[i].product_id,
             views |-> top[i].views,
             model |-> "top_product",
             rank |-> cumcount(top, i) + 1]]

\* ------------------------------------------------------- calcular_top_ctr
calcular_top_ctr(avf) ==
    LET keys == SortedKeys({<<r[1], r[2]>> : r \in DOMAIN avf})
        agg == [i \in 1..Len(keys) |->
                    [advertiser_id |-> keys[i][1],
                     product_id |-> keys[i][2],
                     impressions |-> CopiesIn(<<keys[i][1], keys[i][2], "impression">>, avf),
                     clicks |-> CopiesIn(<<keys[i][1], keys[i][2], "click">>, avf)]]
        kept == SelectIdx(agg, {i \in 1..Len(agg) : agg[i].impressions > 0})
        withctr == [i \in 1..Len(kept) |->
                    [advertiser_id |-> kept[i].advertiser_id,
                     product_id |-> kept[i].product_id,
                     impressions |-> kept[i].impressions,
                     clicks |-> kept[i].clicks,
                     ctr |-> Quotient(kept[i].clicks, kept[i].impressions)]]
        top == head(sort_values(withctr, "ctr"), TopN)
    IN  [i \in 1..Len(top) |->
            [advertiser_id |-> top[i].advertiser_id,
             product_id |-> top[i].product_id,
             impressions |-> top[i].impressions,
             clicks |-> top[i].clicks,
             ctr |-> top[i].ctr,
             model |-> "top_ctr",
             rank |-> cumcount(top, i) + 1]]

\* -------------------------------------------------------------- db_writing
BagOfSeq(s) ==
    [r \in {s[i] : i \in DOMAIN s} |-> Cardinality({i \in DOMAIN s : s[i] = r})]

\* Steps 1 to 5: both rankings under one column set, stamped with the run date.
merge(tp, tc, execution_date) ==
    [i \in 1..Len(tp) |->
        [date |-> execution_date,
         advertiser_id |-> tp[i].advertiser_id,
         model |-> tp[i].model,
         product_id |-> tp[i].product_id,
         rank |-> tp[i].rank,
         views |-> tp[i].views,
         impressions |-> Null,
         clicks |-> Null,
         ctr |-> NullCtr]]
    \o
    [i \in 1..Len(tc) |->
        [date |-> execution_date,
         advertiser_id |-> tc[i].advertiser_id,
         model |-> tc[i].model,
         product_id |-> tc[i].product_id,
         rank |-> tc[i].rank,
         views |-> Null,
         impressions |-> tc[i].impressions,
         clicks |-> tc[i].clicks,
         ctr |-> tc[i].ctr]]

\* WHERE date = d
RowsOfDate(table, d) == [r \in {x \in DOMAIN table : x.date = d} |-> table[r]]

\* (Variants: the DELETE committed at once; the DELETE removing nothing.)
\* cur.execute(DELETE ...) on a connection that does not autocommit: the rows are
\* deleted in the transaction; the committed table keeps them until COMMIT.
execute_delete_autocommit(table, d) ==
    [table |-> table (-) RowsOfDate(table, d), deleted |-> EmptyBag]

execute_delete_skipped(table, d) ==
    [table |-> table, deleted |-> EmptyBag]

execute_delete(table, d) ==
    [table |-> table, deleted |-> RowsOfDate(table, d)]

\* conn.commit(): the transaction's deletes and inserts become the committed rows.
commit(table, t) == (table (-) t.deleted) (+) t.inserted

rollback_partial(table, t) == (table (-) t.deleted) (+) t.inserted

\* connection.__exit__ on an exception: ROLLBACK, nothing of the transaction stays.
rollback(table, t) == table

\* psycopg2.connect(): one more open connection.
connect(n) == n + 1

\* conn.close()
close(n) == n - 1

\* "with psycopg2.connect(...) as conn": leaving the block ends the transaction
\* (commit, or rollback on an exception); psycopg2 does not close the connection.
exit_connection(n) == n

\* db_writing returns: its frame goes, conn was referenced by its locals only, and
\* the interpreter closes a connection object nothing references.
return_db_writing(n) == 0

\* db_writing raises: the traceback of the exception keeps the frame, and conn in
\* it, so the connection stays open.
raise_db_writing(n) == n

\* tx[ds]: state is none, inserted (DELETE and INSERT executed, not committed),
\* committed or rolledback; records is the merged list; deleted and inserted are
\* the uncommitted work; conn counts the connections db_writing of the run has
\* open; prior (the rows of the date when the transaction began) and previous
\* (the inputs of the run of this date that succeeded last, if any) are history.
NoTx ==
    [state |-> "none", records |-> <<>>, prior |-> EmptyBag,
     deleted |-> EmptyBag, inserted |-> EmptyBag, previous |-> {}, conn |-> 0]

\* ------------------------------------------------- tp-api/app: the read API
ALLOWED_MODELS == {"top_product", "top_ctr"}

Idle == [pc |-> "idle"]

\* WHERE advertiser_id = %s AND model = %s
RowsOfList(table, adv, model) ==
    [r \in {x \in DOMAIN table : x.advertiser_id = adv /\ x.model = model} |-> table[r]]

Max(S) == CHOOSE x \in S : \A y \in S : y <= x

\* ORDER BY rank ASC (rows of equal rank in some order).
RECURSIVE OrderByRank(_)
OrderByRank(B) ==
    IF DOMAIN B = {} THEN <<>>
    ELSE LET r == CHOOSE x \in DOMAIN B : \A y \in DOMAIN B : x.rank <= y.rank
         IN  <<r>> \o OrderByRank(B (-) SetToBag({r}))

\* fetch_all of the rows of one list of one day, a single SELECT: it reads the
\* committed rows.
fetch_rows(table, adv, model, day) ==
    OrderByRank(RowsOfDate(RowsOfList(table, adv, model), day))

\* pool.getconn() and pool.putconn(conn) of db.py, on the number of connections
\* checked out of the pool.
getconn(n) == n + 1

putconn(n) == n - 1

\* fetch_one and fetch_all: getconn(), then the query in try with putconn(conn) in
\* finally. raised says where the call failed, if it did.
fetch(n, raised) ==
    IF raised = "getconn" THEN n ELSE putconn(getconn(n))

\* The loop over rows in recommendations(): one item per row.
Items(rows, model) ==
    [i \in 1..Len(rows) |->
        IF model = "top_product"
        THEN [rank |-> rows[i].rank, product_id |-> rows[i].product_id,
              views |-> rows[i].views]
        ELSE [rank |-> rows[i].rank, product_id |-> rows[i].product_id,
              impressions |-> rows[i].impressions, clicks |-> rows[i].clicks,
              ctr |-> rows[i].ctr]]

\* ------------------------------------------------------ src/main.py: the read API
\* safe_float: None stays None, a value that is no finite number (a quotient with
\* denominator 0) becomes None, any other value is kept.
safe_float(value) ==
    IF value = NullCtr \/ value[2] = 0 THEN NullCtr ELSE value

\* The loop over rows in get_recommendations(): one item per row, all columns.
RowItems(rows) ==
    [i \in 1..Len(rows) |->
        [date |-> rows[i].date, advertiser_id |-> rows[i].advertiser_id,
         model |-> rows[i].model, product_id |-> rows[i].product_id,
         rank |-> rows[i].rank, views |-> rows[i].views,
         impressions |-> rows[i].impressions, clicks |-> rows[i].clicks,
         ctr |-> safe_float(rows[i].ctr)]]

\* get_recommendations: get_connection(), then the query in try with conn.close()
\* in finally. raised says where the handler failed, if it did.
query(n, raised) ==
    IF raised = "connect" THEN n ELSE close(connect(n))

\* The items either service makes of rows.
Listing(app, rows, model) ==
    IF app = "tp-api" THEN Items(rows, model) ELSE RowItems(rows)

\* ------------------------------------------------------------------ state
Init ==
    /\ product_views_filtered = EmptyBag
    /\ ads_views_filtered = EmptyBag
    /\ top_product = <<>>
    /\ top_ctr = <<>>
    /\ recommendations = EmptyBag
    /\ pc = [d \in Dates |-> "none"]
    /\ tries = [d \in Dates |-> 0]
    /\ inputs = [d \in Dates |-> NoDataset]
    /\ tx = [d \in Dates |-> NoTx]
    /\ api = Idle

\* ---------------------------------------------------------- the scheduler
\* The task instance succeeded: the next task of the run is scheduled.
Advance(ds, next) ==
    /\ pc' = [pc EXCEPT ![ds] = next]
    /\ tries' = [tries EXCEPT ![ds] = 0]

\* The task instance raised: it is tried again while tries are left
\* (default_args["retries"]), and then the run has failed.
Raise(ds) ==
    IF tries[ds] < retries
    THEN /\ tries' = [tries EXCEPT ![ds] = tries[ds] + 1]
         /\ pc' = pc
    ELSE /\ tries' = [tries EXCEPT ![ds] = 0]
         /\ pc' = [pc EXCEPT ![ds] = "failed"]

\* A DAG run of date ds is created (scheduled, triggered, or cleared to run again).
\* There is one DAG run per date.
Trigger(ds) ==
    /\ pc[ds] \in {"none", "success", "failed"}
    /\ tx[ds].conn = 0
    /\ Advance(ds, "FiltrarDatos")
    /\ tx' = [tx EXCEPT ![ds] =
                [NoTx EXCEPT !.previous =
                    IF pc[ds] = "success" THEN {inputs[ds]} ELSE {}]]
    /\ UNCHANGED <<files, recommendations, inputs, api>>

\* ------------------------------------------------------------------ tasks
FiltrarDatosWrites(raw) ==
    /\ product_views_filtered' = filtrar_datos(raw).product_views_filtered
    /\ ads_views_filtered' = filtrar_datos(raw).ads_views_filtered
    /\ UNCHANGED <<top_product, top_ctr>>

TopProductWrites ==
    /\ top_product' = calcular_top_product(product_views_filtered)
    /\ UNCHANGED <<product_views_filtered, ads_views_filtered, top_ctr>>

TopCTRWrites ==
    /\ top_ctr' = calcular_top_ctr(ads_views_filtered)
    /\ UNCHANGED <<product_views_filtered, ads_views_filtered, top_product>>

FiltrarDatos(ds, raw) ==
    /\ pc[ds] = "FiltrarDatos"
    /\ FiltrarDatosWrites(raw)
    /\ inputs' = [inputs EXCEPT ![ds] = raw]
    /\ Advance(ds, "TopProduct")
    /\ UNCHANGED <<recommendations, tx, api>>

TopProduct(ds) ==
    /\ pc[ds] = "TopProduct"
    /\ TopProductWrites
    /\ Advance(ds, "TopCTR")
    /\ UNCHANGED <<recommendations, inputs, tx, api>>

TopCTR(ds) ==
    /\ pc[ds] = "TopCTR"
    /\ TopCTRWrites
    /\ Advance(ds, "DBWriting")
    /\ UNCHANGED <<recommendations, inputs, tx, api>>

\* s3.download_file or pd.read_csv raises: nothing was written.
DownloadFails(ds) ==
    /\ pc[ds] \in {"FiltrarDatos", "TopProduct", "TopCTR"}
    /\ Raise(ds)
    /\ UNCHANGED <<files, recommendations, inputs, tx, api>>

\* s3.upload_file raises: the local files of the task are already written.
UploadFails(ds) ==
    /\ \/ /\ pc[ds] = "FiltrarDatos"
          /\ \E raw \in PipelineInputs :
                /\ FiltrarDatosWrites(raw)
                /\ inputs' = [inputs EXCEPT ![ds] = raw]
       \/ /\ pc[ds] = "TopProduct"
          /\ TopProductWrites
          /\ inputs' = inputs
       \/ /\ pc[ds] = "TopCTR"
          /\ TopCTRWrites
          /\ inputs' = inputs
    /\ Raise(ds)
    /\ UNCHANGED <<recommendations, tx, api>>

\* db_writing up to the end of the cursor block: the two CSV files are read and
\* merged, the connection is opened, DELETE and INSERT are executed. Nothing of
\* this is committed yet.
DbExecute(ds) ==
    /\ pc[ds] = "DBWriting"
    /\ tx[ds].state \in {"none", "rolledback"}
    /\ tx[ds].conn = 0
    /\ recommendations' = execute_delete(recommendations, ds).table
    /\ tx' = [tx EXCEPT ![ds] =
                [state |-> "inserted",
                 records |-> merge(top_product, top_ctr, ds),
                 prior |-> RowsOfDate(recommendations, ds),
                 deleted |-> execute_delete(recommendations, ds).deleted,
                 inserted |-> BagOfSeq(merge(top_product, top_ctr, ds)),
                 previous |-> tx[ds].previous,
                 conn |-> connect(tx[ds].conn)]]
    /\ UNCHANGED <<files, pc, tries, inputs, api>>

\* conn.commit()
DbCommit(ds) ==
    /\ tx[ds].state = "inserted"
    /\ recommendations' = commit(recommendations, tx[ds])
    /\ tx' = [tx EXCEPT ![ds].state = "committed",
                        ![ds].deleted = EmptyBag,
                        ![ds].inserted = EmptyBag,
                        ![ds].conn = return_db_writing(exit_connection(@))]
    /\ Advance(ds, "success")
    /\ UNCHANGED <<files, inputs, api>>

\* db_writing fails before the commit: in psycopg2.connect (con = FALSE), in the
\* DELETE (del = FALSE), or in the INSERT after the first k records went in. The
\* exception leaves the with block of the connection, which rolls back, and the
\* task instance has failed.
DbStatementFails(ds) ==
    /\ pc[ds] = "DBWriting"
    /\ tx[ds].state \in {"none", "rolledback"}
    /\ tx[ds].conn = 0
    /\ \E con, del \in BOOLEAN : \E k \in 0..Len(merge(top_product, top_ctr, ds)) :
          LET records == merge(top_product, top_ctr, ds)
              done == IF del THEN execute_delete(recommendations, ds)
                      ELSE [table |-> recommendations, deleted |-> EmptyBag]
              t == [state |-> "rolledback",
                    records |-> records,
                    prior |-> RowsOfDate(recommendations, ds),
                    deleted |-> done.deleted,
                    inserted |-> BagOfSeq(SubSeq(records, 1, k)),
                    previous |-> tx[ds].previous,
                    conn |-> IF con
                             THEN raise_db_writing(exit_connection(connect(tx[ds].conn)))
                             ELSE tx[ds].conn]
          IN  /\ ~con => ~del
              /\ ~del => k = 0
              /\ recommendations' = rollback(done.table, t)
              /\ tx' = [tx EXCEPT ![ds] = [t EXCEPT !.records = <<>>,
                                                    !.deleted = EmptyBag,
                                                    !.inserted = EmptyBag]]
    /\ Raise(ds)
    /\ UNCHANGED <<files, inputs, api>>

\* conn.commit() fails: the same rollback.
DbCommitFails(ds) ==
    /\ tx[ds].state = "inserted"
    /\ recommendations' = rollback(recommendations, tx[ds])
    /\ tx' = [tx EXCEPT ![ds].state = "rolledback",
                        ![ds].records = <<>>,
                        ![ds].deleted = EmptyBag,
                        ![ds].inserted = EmptyBag,
                        ![ds].conn = raise_db_writing(exit_connection(@))]
    /\ Raise(ds)
    /\ UNCHANGED <<files, inputs, api>>

\* The process of the failed task instance ends, and with it the connection it
\* left open.
TaskExits(ds) ==
    /\ tx[ds].state = "rolledback"
    /\ tx[ds].conn > 0
    /\ tx' = [tx EXCEPT ![ds].conn = 0]
    /\ UNCHANGED <<files, recommendations, pc, tries, inputs, api>>

Next ==
    \E ds \in Dates :
        \/ Trigger(ds)
        \/ \E raw \in PipelineInputs : FiltrarDatos(ds, raw)
        \/ TopProduct(ds)
        \/ TopCTR(ds)
        \/ DownloadFails(ds)
        \/ UploadFails(ds)
        \/ DbExecute(ds)
        \/ DbCommit(ds)
        \/ DbStatementFails(ds)
        \/ DbCommitFails(ds)
        \/ TaskExits(ds)

Spec == Init /\ [][Next]_vars

\* ------------------------------------------- GET /recommendations/{adv}/{model}
\* What the transaction open on a day would leave: the rows before it and the
\* rows after it, as the handler would list them.
During(adv, model, day) ==
    IF tx[day].state = "inserted"
    THEN [open |-> TRUE,
          old |-> OrderByRank(RowsOfList(tx[day].prior, adv, model)),
          new |-> OrderByRank(RowsOfList(BagOfSeq(tx[day].records), adv, model))]
    ELSE [open |-> FALSE, old |-> <<>>, new |-> <<>>]

\* recommendations(), first query: SELECT MAX(date); 404 when there is none.
FetchLatest(adv, model) ==
    /\ api.pc = "idle"
    /\ LET days == {r.date : r \in DOMAIN RowsOfList(recommendations, adv, model)}
           read == {RowsOfList(recommendations, adv, model)}
       IN  api' = IF days = {}
                  THEN [pc |-> "done", app |-> "tp-api", status |-> 404,
                        advertiser_id |-> adv, model |-> model, read |-> read,
                        held |-> fetch(0, "none")]
                  ELSE [pc |-> "fetch_all", app |-> "tp-api", advertiser_id |-> adv,
                        model |-> model, day |-> Max(days), read |-> read,
                        held |-> fetch(0, "none")]
    /\ UNCHANGED pipeline

\* recommendations(), second query and the response.
FetchRows ==
    /\ api.pc = "fetch_all"
    /\ LET rows == fetch_rows(recommendations, api.advertiser_id, api.model, api.day)
       IN  api' = [pc |-> "done", app |-> "tp-api", status |-> 200,
                   advertiser_id |-> api.advertiser_id, model |-> api.model,
                   date |-> api.day,
                   recommendations |-> Items(rows, api.model),
                   count |-> Len(rows),
                   during |-> During(api.advertiser_id, api.model, api.day),
                   read |-> api.read \cup
                       {RowsOfList(recommendations, api.advertiser_id, api.model)},
                   held |-> fetch(api.held, "none")]
    /\ UNCHANGED pipeline

\* date.today() of the serving host: no DAG run has a date after it.
Today(today) == \A d \in Dates : pc[d] # "none" => d <= today

\* get_recommendations() of src/main.py: one SELECT of the rows of today; 404
\* when there is none.
GetRecommendations(adv, model, today) ==
    /\ api.pc = "idle"
    /\ Today(today)
    /\ LET rows == fetch_rows(recommendations, adv, model, today)
           read == {RowsOfList(recommendations, adv, model)}
       IN  api' = IF rows = <<>>
                  THEN [pc |-> "done", app |-> "main", status |-> 404,
                        advertiser_id |-> adv, model |-> model, read |-> read,
                        held |-> query(0, "none")]
                  ELSE [pc |-> "done", app |-> "main", status |-> 200,
                        advertiser_id |-> adv, model |-> model, date |-> today,
                        recommendations |-> RowItems(rows),
                        count |-> Len(rows),
                        during |-> During(adv, model, today),
                        read |-> read,
                        held |-> query(0, "none")]
    /\ UNCHANGED pipeline

\* fetch_one or fetch_all of recommendations() raises, in getconn() or in the
\* query: the handler raises and the service answers 500.
FetchRaises(adv, model, raised) ==
    /\ api.pc \in {"idle", "fetch_all"}
    /\ api.pc = "fetch_all" => (adv = api.advertiser_id /\ model = api.model)
    /\ api' = [pc |-> "done", app |-> "tp-api", status |-> 500,
               advertiser_id |-> adv, model |-> model,
               held |-> fetch(IF api.pc = "idle" THEN 0 ELSE api.held, raised)]
    /\ UNCHANGED pipeline

\* get_recommendations() raises, in get_connection() or in the query.
GetRecommendationsRaises(adv, model, raised) ==
    /\ api.pc = "idle"
    /\ api' = [pc |-> "done", app |-> "main", status |-> 500,
               advertiser_id |-> adv, model |-> model,
               held |-> query(0, raised)]
    /\ UNCHANGED pipeline

\* The response is sent; the next request may come.
Respond ==
    /\ api.pc = "done"
    /\ api' = Idle
    /\ UNCHANGED pipeline

ApiStep ==
    \/ \E adv \in Advertisers, model \in ALLOWED_MODELS : FetchLatest(adv, model)
    \/ FetchRows
    \/ \E adv \in Advertisers, model \in ALLOWED_MODELS, today \in Dates :
          GetRecommendations(adv, model, today)
    \/ \E adv \in Advertisers, model \in ALLOWED_MODELS :
          \/ \E raised \in {"getconn", "execute"} : FetchRaises(adv, model, raised)
          \/ \E raised \in {"connect", "execute"} :
                GetRecommendationsRaises(adv, model, raised)
    \/ Respond

\* No DAG run of another date is under way.
RunsAlone(ds) ==
    \A other \in Dates \ {ds} : pc[other] \in {"none", "success", "failed"}

\* A task of the run of ds may step: no run of another date is under way, and a
\* response the serving layer has computed is sent first (sending it reads nothing,
\* so nothing is lost by sending it before the pipeline moves on).
Turn(ds) == RunsAlone(ds) /\ api.pc # "done"

\* The serving layer reading beside the pipeline, one DAG run at a time. (S3 never
\* fails here: a failed download or upload changes nothing the serving layer reads.)
NextServe ==
    \/ \E ds \in Dates :
          \/ Turn(ds) /\ Trigger(ds)
          \/ \E raw \in ServeInputs : Turn(ds) /\ FiltrarDatos(ds, raw)
          \/ Turn(ds) /\ TopProduct(ds)
          \/ Turn(ds) /\ TopCTR(ds)
          \/ Turn(ds) /\ DbExecute(ds)
          \/ Turn(ds) /\ DbCommit(ds)
          \/ Turn(ds) /\ DbStatementFails(ds)
          \/ Turn(ds) /\ DbCommitFails(ds)
          \/ Turn(ds) /\ TaskExits(ds)
    \/ ApiStep

SpecServe == Init /\ [][NextServe]_vars

\* One run of the pipeline over a large catalogue, up to the two rankings.
NextRank ==
    \/ Trigger(1)
    \/ \E raw \in CatalogInputs : FiltrarDatos(1, raw)
    \/ TopProduct(1)
    \/ TopCTR(1)

SpecRank == Init /\ [][NextRank]_vars

\* ------------------------------------------------------------ the rankers
RowsOf(df, a) == {i \in 1..Len(df) : df[i].advertiser_id = a}

ProductsViewed(a) == {r[2] : r \in {x \in DOMAIN product_views_filtered : x[1] = a}}

Impressions(a, p) == CopiesIn(<<a, p, "impression">>, ads_views_filtered)

Clicks(a, p) == CopiesIn(<<a, p, "click">>, ads_views_filtered)

ProductsShown(a) ==
    {r[2] : r \in {x \in DOMAIN ads_views_filtered : x[1] = a /\ Impressions(a, x[2]) > 0}}

TopProductWritten == pc[1] \in {"TopCTR", "DBWriting"}

TopCtrWritten == pc[1] = "DBWriting"

\* C6: for every advertiser with at least one distinct product in the filtered
\* product-view log, top_product has exactly min(20, distinct products) rows, their
\* ranks are exactly 1..min(20, distinct products), and views do not increase as the
\* rank increases.
C6_TopProductRanks ==
    TopProductWritten =>
        \A a \in Advertisers :
            LET n == Cardinality(ProductsViewed(a))
                k == IF n < TopN THEN n ELSE TopN
                I == RowsOf(top_product, a)
            IN  n >= 1 =>
                    /\ Cardinality(I) = k
                    /\ {top_product[i].rank : i \in I} = 1..k
                    /\ \A i, j \in I :
                          top_product[i].rank < top_product[j].rank
                              => top_product[i].views >= top_product[j].views

\* An advertiser with more than 20 distinct products and unequal view counts.
C6_Witness ==
    /\ TopProductWritten
    /\ \E a \in Advertisers :
          /\ Cardinality(ProductsViewed(a)) > TopN
          /\ \E i, j \in RowsOf(top_product, a) :
                /\ top_product[i].rank = 1
                /\ top_product[j].rank = TopN
                /\ top_product[i].views > top_product[j].views

\* C7: in both rankers, of two products of one advertiser with equal sort value
\* (views in top_product, ctr in top_ctr) the smaller product_id gets the smaller
\* rank; when only one of them is within the first 20, it is the smaller product_id.
C7_TieBreakAscendingProductId ==
    /\ TopProductWritten =>
          \A a \in Advertisers : \A p, q \in ProductsViewed(a) :
              (p < q /\ product_views_filtered[<<a, p>>] = product_views_filtered[<<a, q>>])
              => \A j \in RowsOf(top_product, a) :
                    top_product[j].product_id = q
                    => \E i \in RowsOf(top_product, a) :
                          /\ top_product[i].product_id = p
                          /\ top_product[i].rank < top_product[j].rank
    /\ TopCtrWritten =>
          \A a \in Advertisers : \A p, q \in ProductsShown(a) :
              (p < q /\ Clicks(a, p) * Impressions(a, q) = Clicks(a, q) * Impressions(a, p))
              => \A j \in RowsOf(top_ctr, a) :
                    top_ctr[j].product_id = q
                    => \E i \in RowsOf(top_ctr, a) :
                          /\ top_ctr[i].product_id = p
                          /\ top_ctr[i].rank < top_ctr[j].rank

\* In both rankings a tie straddles the cut-off: the row of rank 20 has an equal
\* that was cut, and one more tie lies within the ranking.
C7_Witness ==
    /\ TopCtrWritten
    /\ \E a \in Advertisers : \E i \in RowsOf(top_product, a) :
          /\ top_product[i].rank = TopN
          /\ \E q \in ProductsViewed(a) :
                /\ q > top_product[i].product_id
                /\ product_views_filtered[<<a, q>>] = top_product[i].views
                /\ \A j \in RowsOf(top_product, a) : top_product[j].product_id # q
          /\ \E j \in RowsOf(top_product, a) :
                /\ top_product[j].rank < TopN
                /\ top_product[j].views = top_product[i].views
    /\ \E a \in Advertisers : \E i \in RowsOf(top_ctr, a) :
          /\ top_ctr[i].rank = TopN
          /\ \E q \in ProductsShown(a) :
                /\ q > top_ctr[i].product_id
                /\ Quotient(Clicks(a, q), Impressions(a, q)) = top_ctr[i].ctr
                /\ \A j \in RowsOf(top_ctr, a) : top_ctr[j].product_id # q
          /\ \E j \in RowsOf(top_ctr, a) :
                /\ top_ctr[j].rank < TopN
                /\ top_ctr[j].ctr = top_ctr[i].ctr

\* C8: every top_ctr row has impressions > 0 and clicks <= impressions, and a pair
\* without impressions has no row.
C8_CtrWithinUnitInterval ==
    TopCtrWritten =>
        /\ \A i \in 1..Len(top_ctr) :
              /\ top_ctr[i].impressions > 0
              /\ 0 <= top_ctr[i].clicks
              /\ top_ctr[i].clicks <= top_ctr[i].impressions
        /\ \A a \in Advertisers : \A i \in RowsOf(top_ctr, a) :
              Impressions(a, top_ctr[i].product_id) > 0

\* ------------------------------------------------------- the materialiser
\* C1: a read of the rows of a date while db_writing has its transaction on that
\* date open sees the full list as it was before the transaction or the full new
\* list, never an emptied or partial one.
C1_ReadIsAtomic ==
    (api.pc = "done" /\ api.status = 200 /\ api.during.open)
    => api.recommendations \in {Listing(api.app, api.during.old, api.model),
                                Listing(api.app, api.during.new, api.model)}

\* A read made inside a transaction that replaces a non-empty list by another.
C1_Witness ==
    /\ api.pc = "done"
    /\ api.status = 200
    /\ api.during.open
    /\ api.during.old # <<>>
    /\ api.during.new # <<>>
    /\ api.during.old # api.during.new
    /\ api.app = "tp-api"
    /\ api.recommendations = Listing(api.app, api.during.old, api.model)

\* C2: when the transaction of db_writing fails (in the DELETE, in the INSERT, in
\* the commit) the task has not succeeded and the rows of the date are exactly the
\* rows from before the transaction.
C2_FailureRollsBack ==
    \A d \in Dates :
        tx[d].state = "rolledback"
        => /\ pc[d] \in {"DBWriting", "failed"}
           /\ RowsOfDate(recommendations, d) = tx[d].prior

\* A failed transaction that had rows to delete and other rows to insert.
C2_Witness ==
    \E d \in Dates :
        /\ tx[d].state = "rolledback"
        /\ pc[d] = "failed"
        /\ tx[d].prior # EmptyBag
        /\ merge(top_product, top_ctr, d) # <<>>
        /\ BagOfSeq(merge(top_product, top_ctr, d)) # tx[d].prior

SameList(r1, r2) ==
    /\ r1.date = r2.date
    /\ r1.advertiser_id = r2.advertiser_id
    /\ r1.model = r2.model

\* C4: the table never holds two rows with the same (date, advertiser_id, model,
\* rank) or the same (date, advertiser_id, model, product_id), and after a run of
\* date d the rows of d are exactly the rows that run inserted.
C4_OneRowSetPerDate ==
    /\ \A r \in DOMAIN recommendations : recommendations[r] = 1
    /\ \A r1, r2 \in DOMAIN recommendations :
          (SameList(r1, r2) /\ (r1.rank = r2.rank \/ r1.product_id = r2.product_id))
          => r1 = r2
    /\ \A d \in Dates :
          tx[d].state = "committed"
          => RowsOfDate(recommendations, d) = BagOfSeq(tx[d].records)

\* A run replaced a non-empty row set of its date by a different non-empty one.
C4_Witness ==
    \E d \in Dates :
        /\ tx[d].state = "committed"
        /\ tx[d].prior # EmptyBag
        /\ tx[d].records # <<>>
        /\ BagOfSeq(tx[d].records) # tx[d].prior

\* ---------------------------------------------------------- whole runs
\* What the pipeline stores for date d when it runs alone on raw.
RunAlone(raw, d) ==
    BagOfSeq(merge(calcular_top_product(filtrar_datos(raw).product_views_filtered),
                   calcular_top_ctr(filtrar_datos(raw).ads_views_filtered),
                   d))

\* C3: when a run of a date succeeds on the inputs the previous successful run of
\* that date had, the rows of the date are what they were after that previous run.
C3_RerunIsIdempotent ==
    \A d \in Dates :
        (pc[d] = "success" /\ tx[d].previous = {inputs[d]})
        => RowsOfDate(recommendations, d) = tx[d].prior

\* C5: runs of different dates do not interfere: the rows a run stores for its
\* date are the rows it would store running alone on its own inputs.
C5_RunsOfDifferentDatesIndependent ==
    \A d \in Dates :
        pc[d] = "success"
        => RowsOfDate(recommendations, d) = RunAlone(inputs[d], d)

\* C9: a run whose registry is empty leaves no row stored for its date.
C9_EmptyRegistryStoresNothing ==
    \A d \in Dates :
        (pc[d] = "success" /\ active_ids(inputs[d]) = {})
        => RowsOfDate(recommendations, d) = EmptyBag

\* C10: after a run of date d every row of d is of an advertiser in the registry
\* that run read.
C10_OnlyActiveAdvertisersStored ==
    \A d \in Dates :
        pc[d] = "success"
        => \A r \in DOMAIN RowsOfDate(recommendations, d) :
              r.advertiser_id \in active_ids(inputs[d])

\* --------------------------------------------------------- the read API
\* The answer the claim asks for a list as stored: 404 when it has no row, else
\* the rows of its most recent date in rank order.
Latest(app, list, model) ==
    IF DOMAIN list = {}
    THEN [status |-> 404]
    ELSE LET day == Max({r.date : r \in DOMAIN list})
         IN  [status |-> 200, date |-> day,
              recommendations |-> Listing(app, OrderByRank(RowsOfDate(list, day)), model)]

Answered ==
    IF api.status = 200
    THEN [status |-> 200, date |-> api.date, recommendations |-> api.recommendations]
    ELSE [status |-> api.status]

\* C11: GET /recommendations/{adv}/{model} answers with exactly the rows of the
\* most recent stored date of that advertiser and model, in rank order, and with
\* 404 only when the list has no stored row (the list taken as stored at a moment
\* the handler read it; a handler that raised answers nothing).
C11_ServesLatestList ==
    (api.pc = "done" /\ api.status \in {200, 404})
    => \E list \in api.read : Answered = Latest(api.app, list, api.model)

\* C12: after db_writing, fetch_one, fetch_all or an endpoint handler has returned
\* or raised, it holds no connection: a connection of db_writing is open only while
\* db_writing runs, and a handler that is done has nothing checked out of the pool
\* and no connection open.
C12_ConnectionsReleased ==
    /\ api.pc = "done" => api.held = 0
    /\ \A d \in Dates : tx[d].conn > 0 => tx[d].state = "inserted"

====
